---- MODULE Spec2Model ----
(***************************************************************************)
(* The DataTable component (src/components/custom/data-table.tsx) and the  *)
(* InputField it embeds as its search box (src/unnamed/part_000), as a     *)
(* state machine: the props are fixed at mount, the local state is the     *)
(* five useState cells, and every action is one user event handled by the  *)
(* component.  Rows are identified by their position in `data` (object     *)
(* identity); their content is the record stored at that position.         *)
(* Strings are sequences of one-character strings.                         *)
(***************************************************************************)
EXTENDS Integers, Sequences, FiniteSets, TLC

VARIABLES data, columns, loading, searchable, paginated, selectable, pageSize,
          selectedRows, sortColumn, sortDirection, searchQuery, currentPage,
          lastEvent, clicks, emitted, validation, input, live

table == <<data, columns, loading, searchable, paginated, selectable, pageSize,
           selectedRows, sortColumn, sortDirection, searchQuery, currentPage,
           lastEvent, clicks, emitted>>
props == <<data, columns, loading, searchable, paginated, selectable, pageSize>>
config == <<columns, loading, searchable, paginated, selectable, pageSize>>
(* the state of what is modelled beside the table *)
offTable == <<validation, input, live>>
local == <<selectedRows, sortColumn, sortDirection, searchQuery, currentPage>>
vars == <<data, columns, loading, searchable, paginated, selectable, pageSize,
          selectedRows, sortColumn, sortDirection, searchQuery, currentPage,
          lastEvent, clicks, emitted, validation, input, live>>

(* ---------------------------------------------------------------------- *)
(* Bounds of the model                                                     *)
(* ---------------------------------------------------------------------- *)
MaxRows == 3
MaxSelectableRows == 2
MaxPageSize == 2
MaxLength == 3
MaxAnnounces == 3

(* null / undefined of the source; an optional boolean of a column descriptor *)
(* is "true", "false" or UNDEFINED                                            *)
NULL == "null"
UNDEFINED == "undefined"
Falsy(v) == v \in {"false", UNDEFINED, NULL}

(* ---------------------------------------------------------------------- *)
(* Input domains                                                           *)
(* ---------------------------------------------------------------------- *)
Rows == { [id |-> 2, name |-> <<"a">>], [id |-> 10, name |-> <<"A", "b">>] }
Keys == {"id", "name"}
Queries == { <<>>, <<" ">>, <<"A">>, <<"B">>, <<"1">> }

ColumnSets ==
  { << [key |-> "id",   sortable |-> "true",    searchable |-> "false"],
       [key |-> "name", sortable |-> "true",    searchable |-> UNDEFINED] >>,
    << [key |-> "id",   sortable |-> UNDEFINED, searchable |-> "true"],
       [key |-> "name", sortable |-> "true",    searchable |-> "true"] >> }

DataSetsUpTo(max) == UNION { [1..n -> Rows] : n \in 0..max }

(* ---------------------------------------------------------------------- *)
(* Arithmetic and sequence helpers of the JavaScript runtime               *)
(* ---------------------------------------------------------------------- *)
Min(a, b) == IF a < b THEN a ELSE b
Max(a, b) == IF a > b THEN a ELSE b

(* Math.ceil(n / d) for n >= 0, d >= 1 *)
MathCeilDiv(n, d) == (n + d - 1) \div d

(* Array.prototype.slice(start, end) with 0 <= start <= end *)
Slice(s, start, end) == SubSeq(s, start + 1, Min(end, Len(s)))

(* UTF-16 code unit of the characters the model uses *)
CodeUnit(ch) ==
  CASE ch = " " -> 32
    [] ch = "0" -> 48 [] ch = "1" -> 49 [] ch = "2" -> 50
    [] ch = "A" -> 65 [] ch = "B" -> 66
    [] ch = "a" -> 97 [] ch = "b" -> 98

DigitChar(d) ==
  CASE d = 0 -> "0" [] d = 1 -> "1" [] d = 2 -> "2" [] d = 3 -> "3" [] d = 4 -> "4"
    [] d = 5 -> "5" [] d = 6 -> "6" [] d = 7 -> "7" [] d = 8 -> "8" [] d = 9 -> "9"

RECURSIVE NumberToString(_)
NumberToString(n) ==
  IF n < 10 THEN << DigitChar(n) >>
  ELSE Append(NumberToString(n \div 10), DigitChar(n % 10))

LowerChar(ch) == CASE ch = "A" -> "a" [] ch = "B" -> "b" [] OTHER -> ch

(* String.prototype.toLowerCase *)
ToLowerCase(s) == [i \in 1..Len(s) |-> LowerChar(s[i])]

IsWhiteSpace(ch) == ch = " "

(* String.prototype.trim *)
RECURSIVE Trim(_)
Trim(s) ==
  IF s = <<>> THEN s
  ELSE IF IsWhiteSpace(Head(s)) THEN Trim(Tail(s))
  ELSE IF IsWhiteSpace(s[Len(s)]) THEN Trim(SubSeq(s, 1, Len(s) - 1))
  ELSE s

(* String.prototype.includes *)
Includes(s, q) ==
  \E i \in 0..(Len(s) - Len(q)) : SubSeq(s, i + 1, i + Len(q)) = q

(* String(value) of a cell: numbers print in decimal, strings are themselves *)
IsNumberKey(key) == key = "id"
StringOf(key, value) == IF IsNumberKey(key) THEN NumberToString(value) ELSE value

(* the native `<` on two strings: lexicographic on code units *)
RECURSIVE StringLess(_, _)
StringLess(a, b) ==
  IF b = <<>> THEN FALSE
  ELSE IF a = <<>> THEN TRUE
  ELSE IF CodeUnit(Head(a)) # CodeUnit(Head(b))
       THEN CodeUnit(Head(a)) < CodeUnit(Head(b))
  ELSE StringLess(Tail(a), Tail(b))

(* the native `<` on two cell values of one column *)
JsLess(key, a, b) == IF IsNumberKey(key) THEN a < b ELSE StringLess(a, b)

(* ---------------------------------------------------------------------- *)
(* The derived views (useMemo)                                             *)
(* ---------------------------------------------------------------------- *)
AllRows(d) == [i \in 1..Len(d) |-> i]

(* the callback without its test of column.searchable *)
ColumnMatches_IgnoresColumnFlag(column, row, query) ==
  Includes(ToLowerCase(StringOf(column.key, row[column.key])), ToLowerCase(query))

(* the callback of columns.some(...) *)
ColumnMatches(column, row, query) ==
  /\ column.searchable # "false"
  /\ Includes(ToLowerCase(StringOf(column.key, row[column.key])), ToLowerCase(query))

RowMatches(d, cols, i, query) ==
  \E k \in 1..Len(cols) : ColumnMatches(cols[k], d[i], query)

(* Array.prototype.filter with the callback above *)
RECURSIVE FilterRows(_, _, _, _)
FilterRows(d, cols, s, query) ==
  IF s = <<>> THEN <<>>
  ELSE IF RowMatches(d, cols, Head(s), query)
       THEN <<Head(s)>> \o FilterRows(d, cols, Tail(s), query)
  ELSE FilterRows(d, cols, Tail(s), query)

(* the filter without its test of the table's searchable flag *)
filteredDataOf_IgnoresTableFlag(d, cols, isSearchable, query) ==
  IF Trim(query) = <<>> THEN AllRows(d)
  ELSE FilterRows(d, cols, AllRows(d), query)

filteredDataOf(d, cols, isSearchable, query) ==
  IF ~isSearchable \/ Trim(query) = <<>> THEN AllRows(d)
  ELSE FilterRows(d, cols, AllRows(d), query)

(* the comparator without the reversal for "desc" *)
Compare_IgnoresDirection(d, col, dir, a, b) ==
  IF JsLess(col, d[a][col], d[b][col]) THEN -1
  ELSE IF JsLess(col, d[b][col], d[a][col]) THEN 1
  ELSE 0

(* the comparator handed to Array.prototype.sort *)
Compare(d, col, dir, a, b) ==
  IF JsLess(col, d[a][col], d[b][col]) THEN (IF dir = "asc" THEN -1 ELSE 1)
  ELSE IF JsLess(col, d[b][col], d[a][col]) THEN (IF dir = "asc" THEN 1 ELSE -1)
  ELSE 0

(* Array.prototype.sort is a stable sort: x goes behind every element that *)
(* does not compare greater than it                                        *)
RECURSIVE InsertSorted(_, _, _, _, _)
InsertSorted(d, col, dir, sorted, x) ==
  IF sorted = <<>> THEN <<x>>
  ELSE IF Compare(d, col, dir, sorted[Len(sorted)], x) > 0
       THEN Append(InsertSorted(d, col, dir, SubSeq(sorted, 1, Len(sorted) - 1), x),
                   sorted[Len(sorted)])
  ELSE Append(sorted, x)

RECURSIVE ArraySort(_, _, _, _)
ArraySort(d, col, dir, s) ==
  IF s = <<>> THEN <<>>
  ELSE InsertSorted(d, col, dir, ArraySort(d, col, dir, SubSeq(s, 1, Len(s) - 1)),
                    s[Len(s)])

sortedDataOf(d, filtered, col, dir) ==
  IF col = NULL \/ dir = NULL THEN filtered
  ELSE ArraySort(d, col, dir, filtered)

(* the page slice starting one page too far *)
paginatedDataOf_StartsAtPage(sorted, isPaginated, page, size) ==
  IF ~isPaginated THEN sorted
  ELSE LET startIndex == page * size
           endIndex == startIndex + size
       IN Slice(sorted, startIndex, endIndex)

paginatedDataOf(sorted, isPaginated, page, size) ==
  IF ~isPaginated THEN sorted
  ELSE LET startIndex == (page - 1) * size
           endIndex == startIndex + size
       IN Slice(sorted, startIndex, endIndex)

(* sortedData sorting filteredData itself: without a search filteredData is *)
(* the caller's array, which the sort would then reorder                    *)
dataAfterRender_SortsInPlace(d, cols, isSearchable, query, col, dir) ==
  LET filtered == filteredDataOf(d, cols, isSearchable, query)
      sorted == sortedDataOf(d, filtered, col, dir)
  IN IF ~isSearchable \/ Trim(query) = <<>>
     THEN [k \in 1..Len(d) |-> d[sorted[k]]]
     ELSE d

(* the caller's array after a render: filteredData filters into a new array *)
(* and sortedData sorts a copy, [...filteredData], so data is left as it is *)
dataAfterRender(d, cols, isSearchable, query, col, dir) == d

filteredData == filteredDataOf(data, columns, searchable, searchQuery)
sortedData == sortedDataOf(data, filteredData, sortColumn, sortDirection)
paginatedData == paginatedDataOf(sortedData, paginated, currentPage, pageSize)
totalPages == MathCeilDiv(Len(sortedData), pageSize)
displayData == IF paginated THEN paginatedData ELSE sortedData

(* ---------------------------------------------------------------------- *)
(* Selection helpers                                                       *)
(* ---------------------------------------------------------------------- *)
Quote(str) == <<"\"">> \o str \o <<"\"">>

(* JSON.stringify of a row object {id, name} *)
JSONstringify(row) ==
  <<"{">> \o Quote(<<"i", "d">>) \o <<":">> \o NumberToString(row.id) \o <<",">>
    \o Quote(<<"n", "a", "m", "e">>) \o <<":">> \o Quote(row.name) \o <<"}">>

(* membership by object identity instead of by content *)
isRowSelectedIn_ByIdentity(d, sel, row) ==
  \E k \in 1..Len(sel) : sel[k] = row

isRowSelectedIn(d, sel, row) ==
  \E k \in 1..Len(sel) : JSONstringify(d[sel[k]]) = JSONstringify(d[row])

isRowSelected(row) == isRowSelectedIn(data, selectedRows, row)
(* isAllSelected without the test that something is displayed *)
isAllSelected_EmptyIsAll ==
  \A k \in 1..Len(displayData) : isRowSelected(displayData[k])

isAllSelected ==
  Len(displayData) > 0 /\ \A k \in 1..Len(displayData) : isRowSelected(displayData[k])
isIndeterminate ==
  IF (\E k \in 1..Len(displayData) : isRowSelected(displayData[k])) /\ ~isAllSelected
  THEN "true" ELSE UNDEFINED

(* selectedRows.filter((selectedRow) => selectedRow !== row) *)
RECURSIVE FilterNotSame(_, _)
FilterNotSame(sel, row) ==
  IF sel = <<>> THEN <<>>
  ELSE IF Head(sel) # row THEN <<Head(sel)>> \o FilterNotSame(Tail(sel), row)
  ELSE FilterNotSame(Tail(sel), row)

(* ---------------------------------------------------------------------- *)
(* The handlers, as functions of the state they read                       *)
(* ---------------------------------------------------------------------- *)
(* handleSort dropping the column one click early, on the step from "asc" *)
handleSort_ClearsColumnEarly(column, sc, sd) ==
  IF Falsy(column.sortable) THEN [sortColumn |-> sc, sortDirection |-> sd]
  ELSE IF sc = column.key
       THEN [sortDirection |-> IF sd = "asc" THEN "desc"
                               ELSE IF sd = "desc" THEN NULL ELSE "asc",
             sortColumn |-> IF sd = "asc" THEN NULL ELSE sc]
  ELSE [sortColumn |-> column.key, sortDirection |-> "asc"]

(* handleSort without the reset of sortColumn on the step from "desc" *)
handleSort_KeepsColumn(column, sc, sd) ==
  IF Falsy(column.sortable) THEN [sortColumn |-> sc, sortDirection |-> sd]
  ELSE IF sc = column.key
       THEN [sortDirection |-> IF sd = "asc" THEN "desc"
                               ELSE IF sd = "desc" THEN NULL ELSE "asc",
             sortColumn |-> sc]
  ELSE [sortColumn |-> column.key, sortDirection |-> "asc"]

(* handleSort keeping the direction in force when another column is clicked *)
handleSort_KeepsDirection(column, sc, sd) ==
  IF Falsy(column.sortable) THEN [sortColumn |-> sc, sortDirection |-> sd]
  ELSE IF sc = column.key
       THEN [sortDirection |-> IF sd = "asc" THEN "desc"
                               ELSE IF sd = "desc" THEN NULL ELSE "asc",
             sortColumn |-> IF sd = "desc" THEN NULL ELSE sc]
  ELSE [sortColumn |-> column.key, sortDirection |-> IF sd = NULL THEN "asc" ELSE sd]

handleSort(column, sc, sd) ==
  IF Falsy(column.sortable) THEN [sortColumn |-> sc, sortDirection |-> sd]
  ELSE IF sc = column.key
       THEN [sortDirection |-> IF sd = "asc" THEN "desc"
                               ELSE IF sd = "desc" THEN NULL ELSE "asc",
             sortColumn |-> IF sd = "desc" THEN NULL ELSE sc]
  ELSE [sortColumn |-> column.key, sortDirection |-> "asc"]

(* a header click that also goes back to the first page *)
stateAfterSort_ResetsPage(st, column) ==
  LET r == handleSort(column, st.sortColumn, st.sortDirection)
  IN [st EXCEPT !.sortColumn = r.sortColumn, !.sortDirection = r.sortDirection,
                !.currentPage = 1]

(* the five state cells after handleSort, which calls setSortColumn and *)
(* setSortDirection and no other setter                                 *)
stateAfterSort(st, column) ==
  LET r == handleSort(column, st.sortColumn, st.sortDirection)
  IN [st EXCEPT !.sortColumn = r.sortColumn, !.sortDirection = r.sortDirection]

handleRowSelect(sel, row, checked) ==
  IF checked THEN Append(sel, row) ELSE FilterNotSame(sel, row)

(* handleSelectAll selecting every row of the view, not the displayed page *)
handleSelectAll_WholeView(display, checked) ==
  IF checked THEN sortedData ELSE <<>>

(* handleSelectAll adding the page to the selection instead of replacing it *)
handleSelectAll_KeepsOthers(display, checked) ==
  IF checked THEN selectedRows \o display ELSE <<>>

handleSelectAll(display, checked) == IF checked THEN display ELSE <<>>

(* handleRowSelect calling onRowSelect with the selection it found *)
onRowSelectOfRowSelect_Stale(sel, row, checked) == << sel >>

(* the arrays handleRowSelect hands to onRowSelect, in order: newSelectedRows *)
onRowSelectOfRowSelect(sel, row, checked) == << handleRowSelect(sel, row, checked) >>

(* the arrays handleSelectAll hands to onRowSelect, in order: newSelectedRows *)
onRowSelectOfSelectAll(display, checked) == << handleSelectAll(display, checked) >>

(* handleSearch without the reset of the page *)
handleSearch_KeepsPage(st, value) == [st EXCEPT !.searchQuery = value]

handleSearch(st, value) == [st EXCEPT !.searchQuery = value, !.currentPage = 1]

(* the onClear prop the table hands to its search box *)
searchOnClear(st) == [st EXCEPT !.searchQuery = <<>>]

(* handleClear calling onClear only, without the synthetic change event *)
handleClear_OnClearOnly(st) == searchOnClear(st)

(* InputField.handleClear: onClear?.() and then onChange with an empty value *)
handleClear(st) == handleSearch(searchOnClear(st), <<>>)

handlePreviousPage(prev) == Max(prev - 1, 1)
(* handleNextPage without the clamp at the last page *)
handleNextPage_NoClamp(prev, total) == prev + 1

handleNextPage(prev, total) == Min(prev + 1, total)

(* the search box shows its clear button: clearable && hasValue && !disabled && !loading *)
showClearButton(value) == Len(value) > 0

MaxPageButtons == 5
(* the page numbers that have a button *)
PageButtons(total) ==
  (1..Min(MaxPageButtons, total)) \cup (IF total > MaxPageButtons THEN {total} ELSE {})

(* ---------------------------------------------------------------------- *)
(* The state machine                                                       *)
(* ---------------------------------------------------------------------- *)
(* lastEvent: the event handled last, with the page it was handled on and,  *)
(* for the select-all checkbox, the selection it found                      *)
NoEvent ==
  [op |-> "mount", col |-> NULL, row |-> 0, checked |-> FALSE, text |-> <<>>,
   page |-> 1, before |-> <<>>]
NoClicks == [col |-> NULL, n |-> 0]
(* emitted: the calls of the onRowSelect prop: how many the last event made, *)
(* whether there was one at all, and the array handed to the last one        *)
NoEmission == [calls |-> 0, ever |-> FALSE, last |-> <<>>]
(* an event whose handler does not call onRowSelect *)
Silent == [emitted EXCEPT !.calls = 0]
(* an event whose handler calls onRowSelect with each array of arrays, in order *)
Emitting(arrays) ==
  IF arrays = <<>> THEN Silent
  ELSE [calls |-> Len(arrays), ever |-> TRUE, last |-> arrays[Len(arrays)]]

(* ---------------------------------------------------------------------- *)
(* validateInput (lib/types.ts)                                            *)
(* ---------------------------------------------------------------------- *)
(* A value is a string, or the undefined / null a caller without type      *)
(* checking can pass; an optional number is <<>> (not given) or <<n>>; the  *)
(* custom rule is given by what it returns for the value.                  *)
StringValue(text) == [kind |-> "string", text |-> text]
AbsentValue(kind) == [kind |-> kind, text |-> <<>>]
Chars == {"a", " "}
Strings == UNION { [1..n -> Chars] : n \in 0..MaxLength }
Values == { StringValue(t) : t \in Strings } \cup { AbsentValue(UNDEFINED), AbsentValue(NULL) }

Lengths == { <<>> } \cup { <<n>> : n \in 0..MaxLength }
Patterns == { UNDEFINED, "^a+$" }
NoCustom == [type |-> UNDEFINED, bool |-> FALSE, text |-> <<>>]
CustomResults ==
  { [type |-> "boolean", bool |-> b, text |-> <<>>] : b \in BOOLEAN }
    \cup { [type |-> "string", bool |-> FALSE, text |-> t] : t \in { <<>>, <<"Taken">> } }
Rules ==
  [ required : {"true", "false", UNDEFINED},
    minLength : Lengths,
    maxLength : Lengths,
    pattern : Patterns,
    custom : { NoCustom } \cup CustomResults ]

(* !value *)
NotValue(value) == value.kind # "string" \/ value.text = <<>>
(* a number used as a condition: given and not 0 *)
TruthyNumber(n) == n # <<>> /\ n[1] # 0
(* String(value), the argument RegExp.prototype.test works on *)
StringOfValue(value) ==
  CASE value.kind = "string" -> value.text
    [] value.kind = UNDEFINED -> <<"u", "n", "d", "e", "f", "i", "n", "e", "d">>
    [] value.kind = NULL -> <<"n", "u", "l", "l">>
(* pattern.test(value) for the pattern of the model, /^a+$/ *)
RegExpTest(pattern, text) == text # <<>> /\ \A i \in 1..Len(text) : text[i] = "a"

REQUIRED_MESSAGE == <<"This field is required">>
MinLengthMessage(n) == <<"Must be at least ">> \o NumberToString(n) \o <<" characters long">>
MaxLengthMessage(n) == <<"Must be no more than ">> \o NumberToString(n) \o <<" characters long">>
PATTERN_MESSAGE == <<"Please enter a valid format">>
INVALID_MESSAGE == <<"Invalid value">>

(* a ValidationResult; evaluated lists the rules whose test was run *)
Returned(errors, evaluated) ==
  [kind |-> "return", isValid |-> (Len(errors) = 0), errors |-> errors,
   evaluated |-> evaluated]
(* value.length read on undefined or null *)
TypeError(evaluated) ==
  [kind |-> "TypeError", isValid |-> FALSE, errors |-> <<>>, evaluated |-> evaluated]

(* the four rule checks that follow the early return *)
RuleChecks(value, rules, errors) ==
  LET minTested == TruthyNumber(rules.minLength)
      maxTested == TruthyNumber(rules.maxLength)
      patternTested == rules.pattern # UNDEFINED
      customCalled == rules.custom.type # UNDEFINED
      e2 == IF minTested /\ Len(value.text) < rules.minLength[1]
            THEN Append(errors, MinLengthMessage(rules.minLength[1])) ELSE errors
      e3 == IF maxTested /\ Len(value.text) > rules.maxLength[1]
            THEN Append(e2, MaxLengthMessage(rules.maxLength[1])) ELSE e2
      e4 == IF patternTested /\ ~RegExpTest(rules.pattern, StringOfValue(value))
            THEN Append(e3, PATTERN_MESSAGE) ELSE e3
      e5 == IF ~customCalled THEN e4
            ELSE IF rules.custom.type = "string" THEN Append(e4, rules.custom.text)
            ELSE IF ~rules.custom.bool THEN Append(e4, INVALID_MESSAGE)
            ELSE e4
      evaluated == (IF minTested THEN <<"minLength">> ELSE <<>>)
                     \o (IF maxTested THEN <<"maxLength">> ELSE <<>>)
                     \o (IF patternTested THEN <<"pattern">> ELSE <<>>)
                     \o (IF customCalled THEN <<"custom">> ELSE <<>>)
  IN IF value.kind # "string" /\ minTested THEN TypeError(<<"minLength">>)
     ELSE IF value.kind # "string" /\ maxTested THEN TypeError(<<"maxLength">>)
     ELSE Returned(e5, evaluated)

(* validateInput going on to the other rules for an empty optional value *)
validateInput_NoEarlyReturn(value, rules) ==
  LET errors == IF ~Falsy(rules.required) /\ (NotValue(value) \/ Len(Trim(value.text)) = 0)
                THEN << REQUIRED_MESSAGE >> ELSE <<>>
  IN RuleChecks(value, rules, errors)

validateInput(value, rules) ==
  LET errors == IF ~Falsy(rules.required) /\ (NotValue(value) \/ Len(Trim(value.text)) = 0)
                THEN << REQUIRED_MESSAGE >> ELSE <<>>
  IN IF NotValue(value) /\ Falsy(rules.required) THEN Returned(<<>>, <<>>)
     ELSE RuleChecks(value, rules, errors)

NotCalled == [kind |-> "none", isValid |-> FALSE, errors |-> <<>>, evaluated |-> <<>>]
NoValidation ==
  [called |-> FALSE, value |-> StringValue(<<>>),
   rules |-> [required |-> UNDEFINED, minLength |-> <<>>, maxLength |-> <<>>,
              pattern |-> UNDEFINED, custom |-> NoCustom],
   result |-> NotCalled]

(* ---------------------------------------------------------------------- *)
(* InputField                                                              *)
(* ---------------------------------------------------------------------- *)
(* A text prop (label, helperText, errorMessage) is <<>> when it is not    *)
(* given; an id is a sequence of strings, <<>> when the attribute is not   *)
(* rendered; rest holds the passthrough attributes (...props), <<>> for    *)
(* the ones not passed.                                                    *)
Randoms == {"k3x9", "q07b"}
InputValues == { AbsentValue(UNDEFINED), StringValue(<<>>), StringValue(<<"a">>) }
InputTypes == {"text", "password", "email"}
Texts == { <<>>, <<"t">> }
NoRest == [id |-> <<>>, ariaDescribedby |-> <<>>, ariaInvalid |-> UNDEFINED]
Rests ==
  [ id : { <<>>, <<"email">> },
    ariaDescribedby : { <<>>, <<"hint">> },
    ariaInvalid : { UNDEFINED, "true", "false" } ]

(* the props as the destructuring leaves them when nothing is passed *)
DefaultInputProps ==
  [value |-> AbsentValue(UNDEFINED), type |-> "text", disabled |-> FALSE,
   loading |-> FALSE, clearable |-> FALSE, showPasswordToggle |-> FALSE,
   invalid |-> FALSE, label |-> <<>>, helperText |-> <<>>, errorMessage |-> <<>>,
   onClear |-> FALSE, onChange |-> FALSE, rest |-> NoRest]

(* `input-${Math.random().toString(36).substr(2, 9)}` *)
inputIdOf(random) == <<"input-", random>>
descriptionIdOf(id) == id \o <<"-description">>

(* actualType turning every revealed input into plain text *)
actualType_AnyType(p, showPassword) == IF showPassword THEN "text" ELSE p.type

actualType(p, showPassword) ==
  IF p.type = "password" /\ showPassword THEN "text" ELSE p.type
isPassword(p) == p.type = "password" /\ p.showPasswordToggle
hasValue(p) == p.value.kind = "string" /\ Len(p.value.text) > 0

(* showClearButton without the test of disabled *)
showClearButtonOf_IgnoresDisabled(p) == p.clearable /\ hasValue(p) /\ ~p.loading

(* const showClearButton = clearable && hasValue && !disabled && !loading *)
showClearButtonOf(p) == p.clearable /\ hasValue(p) /\ ~p.disabled /\ ~p.loading

(* what a render puts in the document *)
Render(p, showPassword, id) ==
  LET described == p.helperText # <<>> \/ p.errorMessage # <<>>
  IN [ labelFor |-> IF p.label # <<>> THEN id ELSE <<>>,
       inputId |-> IF p.rest.id # <<>> THEN p.rest.id ELSE id,
       inputType |-> actualType(p, showPassword),
       inputValue |-> p.value,
       inputDisabled |-> (p.disabled \/ p.loading),
       ariaInvalid |-> IF p.rest.ariaInvalid # UNDEFINED THEN p.rest.ariaInvalid
                       ELSE IF p.invalid THEN "true" ELSE "false",
       ariaDescribedby |-> IF p.rest.ariaDescribedby # <<>> THEN p.rest.ariaDescribedby
                           ELSE IF described THEN descriptionIdOf(id) ELSE <<>>,
       clearButton |-> (showClearButtonOf(p) /\ ~p.loading),
       toggleButton |-> (isPassword(p) /\ ~p.loading),
       descriptionId |-> IF described THEN descriptionIdOf(id) ELSE <<>>,
       descriptionText |-> IF p.errorMessage # <<>> THEN p.errorMessage ELSE p.helperText ]

(* handleClear without the synthetic change event *)
handleClearCalls_OnClearOnly(p) ==
  IF p.onClear THEN << [fn |-> "onClear", events |-> <<>>] >> ELSE <<>>

(* the callbacks handleClear invokes, in order, each with the target values *)
(* of the events it is handed: onClear?.() and then onChange(syntheticEvent) *)
handleClearCalls(p) ==
  (IF p.onClear THEN << [fn |-> "onClear", events |-> <<>>] >> ELSE <<>>)
    \o (IF p.onChange THEN << [fn |-> "onChange", events |-> << <<>> >>] >> ELSE <<>>)

togglePasswordVisibility(showPassword) == ~showPassword

(* An InputField instance: its props, its one state cell, the id of the    *)
(* current render, and history: the id of the first render, the last two   *)
(* events, the reveal flag before them, the callbacks the last event made  *)
NoInput ==
  [props |-> DefaultInputProps, showPassword |-> FALSE,
   id |-> inputIdOf("none"), mountId |-> inputIdOf("none"),
   op |-> "none", opBefore |-> "none", showBefore |-> FALSE, calls |-> <<>>]

Mounted(p, random) ==
  [props |-> p, showPassword |-> FALSE,
   id |-> inputIdOf(random), mountId |-> inputIdOf(random),
   op |-> "mount", opBefore |-> "none", showBefore |-> FALSE, calls |-> <<>>]

(* ---------------------------------------------------------------------- *)
(* useAriaLiveRegion (lib/types.ts)                                        *)
(* ---------------------------------------------------------------------- *)
(* The region: whether liveRegionRef.current is set, the two things        *)
(* announce writes, and the setTimeout callbacks not run yet, oldest       *)
(* first (they share one delay, so they run in the order they were set).   *)
(* announced counts the calls of announce; a timer is marked stale when    *)
(* the element its call wrote to has been unmounted.                       *)
Messages == {"saved", "deleted"}
Priorities == {"polite", "assertive"}
NoLiveRegion ==
  [mounted |-> FALSE, ariaLive |-> "polite", textContent |-> "", timers |-> <<>>,
   announced |-> 0]

announce(region, message, priority) ==
  IF ~region.mounted THEN region
  ELSE [region EXCEPT !.ariaLive = priority,
                      !.textContent = message,
                      !.timers = Append(@, [call |-> region.announced + 1,
                                            message |-> message,
                                            stale |-> FALSE])]

(* the callback handed to setTimeout *)
clearAfterAnnouncement(region) ==
  IF region.mounted THEN [region EXCEPT !.textContent = ""] ELSE region

LOADING == "Loading..."
NO_RESULTS == "No results found"
NO_DATA == "No data available"
SUGGESTION == "Try adjusting your search terms"

(* the empty state reading "No data available" whatever the query *)
EmptyState_IgnoresQuery(display, query) ==
  IF Len(display) = 0 THEN [message |-> NO_DATA, hint |-> NULL]
  ELSE [message |-> NULL, hint |-> NULL]

(* what is rendered in place of the table when displayData is empty: the  *)
(* message, and the hint under it (null: not rendered)                    *)
EmptyState(display, query) ==
  IF Len(display) = 0
  THEN [message |-> IF query # <<>> THEN NO_RESULTS ELSE NO_DATA,
        hint |-> IF query # <<>> THEN SUGGESTION ELSE NULL]
  ELSE [message |-> NULL, hint |-> NULL]

(* the message the component shows: "Loading..." while loading, else the *)
(* one of the empty state                                                *)
Rendered ==
  IF loading THEN [message |-> LOADING, hint |-> NULL]
  ELSE EmptyState(displayData, searchQuery)

(* the local state at mount *)
InitLocal ==
  /\ selectedRows = <<>>
  /\ sortColumn = NULL
  /\ sortDirection = NULL
  /\ searchQuery = <<>>
  /\ currentPage = 1
  /\ lastEvent = NoEvent
  /\ clicks = NoClicks
  /\ emitted = NoEmission

(* the table with every feature flag free *)
Init ==
  /\ data \in DataSetsUpTo(MaxSelectableRows)
  /\ columns \in ColumnSets
  /\ loading \in BOOLEAN
  /\ searchable \in BOOLEAN
  /\ paginated \in BOOLEAN
  /\ selectable \in BOOLEAN
  /\ pageSize \in 1..MaxPageSize
  /\ InitLocal
  /\ validation = NoValidation
  /\ input = NoInput
  /\ live = NoLiveRegion

(* the table with selectable at its default, false: the search, sort and  *)
(* pagination pipeline alone                                              *)
InitPipeline ==
  /\ data \in DataSetsUpTo(MaxRows)
  /\ columns \in ColumnSets
  /\ loading \in BOOLEAN
  /\ searchable \in BOOLEAN
  /\ paginated \in BOOLEAN
  /\ selectable = FALSE
  /\ pageSize \in 1..MaxPageSize
  /\ InitLocal
  /\ validation = NoValidation
  /\ input = NoInput
  /\ live = NoLiveRegion

localState ==
  [selectedRows |-> selectedRows, sortColumn |-> sortColumn,
   sortDirection |-> sortDirection, searchQuery |-> searchQuery,
   currentPage |-> currentPage]

Event(op) == [NoEvent EXCEPT !.op = op, !.page = currentPage]

(* the table (header and rows) is rendered only when displayData is not empty *)
(* a loading table renders "Loading..." alone: no search box, no table, *)
(* no pagination                                                        *)
TableShown == ~loading /\ Len(displayData) > 0
PaginationShown == ~loading /\ paginated /\ totalPages > 1
SearchShown == ~loading /\ searchable

(* count of consecutive clicks on one header, started while it was not active *)
ClicksAfter(key) ==
  IF clicks.col = key /\ clicks.n \in 1..2 THEN [col |-> key, n |-> clicks.n + 1]
  ELSE IF sortColumn # key THEN [col |-> key, n |-> 1]
  ELSE NoClicks

HeaderClick(k) ==
  /\ TableShown
  /\ LET st == stateAfterSort(localState, columns[k])
     IN /\ sortColumn' = st.sortColumn
        /\ sortDirection' = st.sortDirection
        /\ selectedRows' = st.selectedRows
        /\ searchQuery' = st.searchQuery
        /\ currentPage' = st.currentPage
  /\ lastEvent' = [Event("sort") EXCEPT !.col = columns[k].key]
  /\ clicks' = IF Falsy(columns[k].sortable) THEN NoClicks ELSE ClicksAfter(columns[k].key)
  /\ emitted' = Silent
  /\ UNCHANGED <<config, offTable>>
  /\ data' = dataAfterRender(data, columns, searchable, searchQuery',
                              sortColumn', sortDirection')

SearchType(q) ==
  /\ SearchShown
  /\ q # searchQuery
  /\ LET r == handleSearch([searchQuery |-> searchQuery, currentPage |-> currentPage], q)
     IN /\ searchQuery' = r.searchQuery
        /\ currentPage' = r.currentPage
  /\ lastEvent' = [Event("search") EXCEPT !.text = q]
  /\ clicks' = NoClicks
  /\ emitted' = Silent
  /\ UNCHANGED <<config, offTable, selectedRows, sortColumn, sortDirection>>
  /\ data' = dataAfterRender(data, columns, searchable, searchQuery',
                              sortColumn', sortDirection')

SearchClear ==
  /\ SearchShown
  /\ showClearButton(searchQuery)
  /\ LET r == handleClear([searchQuery |-> searchQuery, currentPage |-> currentPage])
     IN /\ searchQuery' = r.searchQuery
        /\ currentPage' = r.currentPage
  /\ lastEvent' = Event("clear")
  /\ clicks' = NoClicks
  /\ emitted' = Silent
  /\ UNCHANGED <<config, offTable, selectedRows, sortColumn, sortDirection>>
  /\ data' = dataAfterRender(data, columns, searchable, searchQuery',
                              sortColumn', sortDirection')

PreviousPage ==
  /\ PaginationShown
  /\ currentPage # 1
  /\ currentPage' = handlePreviousPage(currentPage)
  /\ lastEvent' = Event("previous")
  /\ clicks' = NoClicks
  /\ emitted' = Silent
  /\ UNCHANGED <<config, offTable, selectedRows, sortColumn, sortDirection, searchQuery>>
  /\ data' = dataAfterRender(data, columns, searchable, searchQuery',
                              sortColumn', sortDirection')

NextPage ==
  /\ PaginationShown
  /\ currentPage # totalPages
  /\ currentPage' = handleNextPage(currentPage, totalPages)
  /\ lastEvent' = Event("next")
  /\ clicks' = NoClicks
  /\ emitted' = Silent
  /\ UNCHANGED <<config, offTable, selectedRows, sortColumn, sortDirection, searchQuery>>
  /\ data' = dataAfterRender(data, columns, searchable, searchQuery',
                              sortColumn', sortDirection')

PageButton(p) ==
  /\ PaginationShown
  /\ p \in PageButtons(totalPages)
  /\ currentPage' = p
  /\ lastEvent' = Event("page")
  /\ clicks' = NoClicks
  /\ emitted' = Silent
  /\ UNCHANGED <<config, offTable, selectedRows, sortColumn, sortDirection, searchQuery>>
  /\ data' = dataAfterRender(data, columns, searchable, searchQuery',
                              sortColumn', sortDirection')

RowCheckbox(k) ==
  /\ selectable
  /\ TableShown
  /\ k \in 1..Len(displayData)
  /\ LET row == displayData[k]
         checked == ~isRowSelected(row)
     IN /\ selectedRows' = handleRowSelect(selectedRows, row, checked)
        /\ emitted' = Emitting(onRowSelectOfRowSelect(selectedRows, row, checked))
        /\ lastEvent' = [Event("select") EXCEPT !.row = row, !.checked = checked]
  /\ clicks' = NoClicks
  /\ UNCHANGED <<config, offTable, sortColumn, sortDirection, searchQuery, currentPage>>
  /\ data' = dataAfterRender(data, columns, searchable, searchQuery',
                              sortColumn', sortDirection')

SelectAllCheckbox ==
  /\ selectable
  /\ TableShown
  /\ LET checked == ~isAllSelected
     IN /\ selectedRows' = handleSelectAll(displayData, checked)
        /\ emitted' = Emitting(onRowSelectOfSelectAll(displayData, checked))
        /\ lastEvent' = [Event("selectAll") EXCEPT !.checked = checked,
                                                  !.before = selectedRows]
  /\ clicks' = NoClicks
  /\ UNCHANGED <<config, offTable, sortColumn, sortDirection, searchQuery, currentPage>>
  /\ data' = dataAfterRender(data, columns, searchable, searchQuery',
                              sortColumn', sortDirection')

Next ==
  \/ \E k \in 1..Len(columns) : HeaderClick(k)
  \/ \E q \in Queries : SearchType(q)
  \/ SearchClear
  \/ PreviousPage
  \/ NextPage
  \/ \E p \in PageButtons(totalPages) : PageButton(p)
  \/ \E k \in 1..Len(displayData) : RowCheckbox(k)
  \/ SelectAllCheckbox

Spec == Init /\ [][Next]_vars

(* the events of a table that shows no checkboxes *)
NextPipeline ==
  \/ \E k \in 1..Len(columns) : HeaderClick(k)
  \/ \E q \in Queries : SearchType(q)
  \/ SearchClear
  \/ PreviousPage
  \/ NextPage
  \/ \E p \in PageButtons(totalPages) : PageButton(p)

SpecPipeline == InitPipeline /\ [][NextPipeline]_vars

(* the table stays as it is while an InputField alone is exercised *)
NoTable ==
  /\ data = <<>>
  /\ columns = CHOOSE c \in ColumnSets : TRUE
  /\ loading = FALSE
  /\ searchable = FALSE
  /\ paginated = FALSE
  /\ selectable = FALSE
  /\ pageSize = 1
  /\ InitLocal

(* what the user can act on: value, type, the flags and the callbacks vary *)
InteractionProps ==
  { [DefaultInputProps EXCEPT !.value = v, !.type = t, !.disabled = d, !.loading = l,
                              !.clearable = c, !.showPasswordToggle = s,
                              !.onClear = oc, !.onChange = och] :
      v \in InputValues, t \in InputTypes, d \in BOOLEAN, l \in BOOLEAN,
      c \in BOOLEAN, s \in BOOLEAN, oc \in BOOLEAN, och \in BOOLEAN }

InitInput ==
  /\ NoTable
  /\ validation = NoValidation
  /\ live = NoLiveRegion
  /\ \E p \in InteractionProps, r \in Randoms : input = Mounted(p, r)

rendered == Render(input.props, input.showPassword, input.id)

(* an event of the instance; a re-render computes inputId anew *)
InputEvent(op, p, showPassword, random, calls) ==
  [props |-> p, showPassword |-> showPassword,
   id |-> inputIdOf(random), mountId |-> input.mountId,
   op |-> op, opBefore |-> input.op, showBefore |-> input.showPassword,
   calls |-> calls]

(* a click on the clear button: no state is set, so nothing renders again *)
ClickClear ==
  /\ rendered.clearButton
  /\ input' = [input EXCEPT !.op = "clear", !.opBefore = input.op,
                            !.showBefore = input.showPassword,
                            !.calls = handleClearCalls(input.props)]
  /\ UNCHANGED <<table, validation, live>>

(* a click on the password toggle *)
ClickToggle ==
  /\ rendered.toggleButton
  /\ \E r \in Randoms :
       input' = InputEvent("toggle", input.props,
                           togglePasswordVisibility(input.showPassword), r, <<>>)
  /\ UNCHANGED <<table, validation, live>>

(* the caller renders the instance again with one prop changed *)
PropChange(name, v) ==
  /\ input.props[name] # v
  /\ \E r \in Randoms :
       input' = InputEvent("props", [input.props EXCEPT ![name] = v],
                           input.showPassword, r, <<>>)
  /\ UNCHANGED <<table, validation, live>>

NextInput ==
  \/ ClickClear
  \/ ClickToggle
  \/ \E v \in InputValues : PropChange("value", v)
  \/ \E t \in InputTypes : PropChange("type", t)
  \/ \E name \in {"disabled", "loading", "clearable", "showPasswordToggle"} :
       \E b \in BOOLEAN : PropChange(name, b)

SpecInput == InitInput /\ [][NextInput]_vars

(* what the accessibility wiring depends on: label, helper and error text, *)
(* invalid and the passthrough attributes vary, on a password field with   *)
(* its toggle                                                              *)
WiringProps ==
  { [DefaultInputProps EXCEPT !.type = "password", !.showPasswordToggle = TRUE,
                              !.value = StringValue(<<"a">>),
                              !.label = lb, !.helperText = h, !.errorMessage = er,
                              !.invalid = inv, !.rest = rest] :
      lb \in Texts, h \in Texts, er \in Texts, inv \in BOOLEAN, rest \in Rests }

InitInputWiring ==
  /\ NoTable
  /\ validation = NoValidation
  /\ live = NoLiveRegion
  /\ \E p \in WiringProps, r \in Randoms : input = Mounted(p, r)

NextInputWiring ==
  \/ ClickToggle
  \/ \E v \in InputValues : PropChange("value", v)
  \/ \E name \in {"label", "helperText", "errorMessage"} :
       \E t \in Texts : PropChange(name, t)
  \/ \E b \in BOOLEAN : PropChange("invalid", b)
  \/ \E rest \in Rests : PropChange("rest", rest)

SpecInputWiring == InitInputWiring /\ [][NextInputWiring]_vars

(* The live region on its own: it is rendered, announce is called, timers  *)
(* run out                                                                 *)
InitLiveRegion ==
  /\ NoTable
  /\ validation = NoValidation
  /\ input = NoInput
  /\ live = NoLiveRegion

(* <LiveRegion /> is rendered: the ref is set *)
MountRegion ==
  /\ ~live.mounted
  /\ live' = [live EXCEPT !.mounted = TRUE]
  /\ UNCHANGED <<table, validation, input>>

(* <LiveRegion /> is removed: React resets the ref to null, the element *)
(* is gone, the timers stay                                             *)
UnmountRegion ==
  /\ live.mounted
  /\ live' = [live EXCEPT !.mounted = FALSE, !.ariaLive = "polite", !.textContent = "",
                          !.timers = [k \in 1..Len(@) |-> [@[k] EXCEPT !.stale = TRUE]]]
  /\ UNCHANGED <<table, validation, input>>

Announce(message, priority) ==
  /\ live.announced < MaxAnnounces
  /\ live' = [announce(live, message, priority) EXCEPT !.announced = @ + 1]
  /\ UNCHANGED <<table, validation, input>>

(* the delay of the oldest timer has elapsed *)
TimerFires ==
  /\ live.timers # <<>>
  /\ live' = [clearAfterAnnouncement(live) EXCEPT !.timers = Tail(@)]
  /\ UNCHANGED <<table, validation, input>>

NextLiveRegion ==
  \/ MountRegion
  \/ UnmountRegion
  \/ \E m \in Messages, p \in Priorities : Announce(m, p)
  \/ TimerFires

SpecLiveRegion == InitLiveRegion /\ [][NextLiveRegion]_vars

(* The caller renders the table again with a shorter data array: no state *)
(* cell is written, the memoised views are computed anew                  *)
ReplaceData(d) ==
  /\ Len(d) < Len(data)
  /\ data' = d
  /\ lastEvent' = Event("data")
  /\ clicks' = NoClicks
  /\ emitted' = Silent
  /\ UNCHANGED <<config, offTable, local>>

(* the caller renders the table again with a larger pageSize *)
RaisePageSize(n) ==
  /\ n > pageSize
  /\ pageSize' = n
  /\ lastEvent' = Event("pageSize")
  /\ clicks' = NoClicks
  /\ emitted' = Silent
  /\ UNCHANGED <<data, columns, loading, searchable, paginated, selectable,
                 offTable, local>>

(* the table without checkboxes, under a caller that changes data and *)
(* pageSize between the user's events                                 *)
NextCaller ==
  \/ NextPipeline
  \/ \E d \in DataSetsUpTo(MaxRows) : ReplaceData(d)
  \/ \E n \in 1..MaxPageSize : RaisePageSize(n)

SpecCaller == InitPipeline /\ [][NextCaller]_vars

(* validateInput on its own: a value and a rule set are chosen, then the   *)
(* function is applied to them; no table is involved                       *)
InitValidate ==
  /\ data = <<>>
  /\ columns = CHOOSE c \in ColumnSets : TRUE
  /\ loading = FALSE
  /\ searchable = FALSE
  /\ paginated = FALSE
  /\ selectable = FALSE
  /\ pageSize = 1
  /\ InitLocal
  /\ input = NoInput
  /\ live = NoLiveRegion
  /\ \E v \in Values, r \in Rules :
       validation = [called |-> FALSE, value |-> v, rules |-> r, result |-> NotCalled]

Validate ==
  /\ ~validation.called
  /\ validation' = [validation EXCEPT !.called = TRUE,
                                      !.result = validateInput(validation.value, validation.rules)]
  /\ UNCHANGED <<table, input, live>>

NextValidate == Validate

SpecValidate == InitValidate /\ [][NextValidate]_vars

(* ---------------------------------------------------------------------- *)
(* Vocabulary of the properties                                            *)
(* ---------------------------------------------------------------------- *)
(* s contains q, ignoring case *)
ContainsIgnoringCase(s, q) ==
  \E i \in 0..(Len(s) - Len(q)) :
    \A j \in 1..Len(q) : LowerChar(s[i + j]) = LowerChar(q[j])

IsBlank(q) == \A j \in 1..Len(q) : q[j] = " "

(* the row has a column, not excluded from the search, whose text contains q *)
SomeSearchableColumnContains(row, q) ==
  \E k \in 1..Len(columns) :
    /\ columns[k].searchable # "false"
    /\ ContainsIgnoringCase(StringOf(columns[k].key, data[row][columns[k].key]), q)

IsSubsequenceOfData(s) ==
  /\ \A i \in 1..Len(s) : s[i] \in 1..Len(data)
  /\ \A i, j \in 1..Len(s) : i < j => s[i] < s[j]

IsPermutationOf(s, t) ==
  /\ Len(s) = Len(t)
  /\ \A x \in 1..Len(data) :
       Cardinality({i \in 1..Len(s) : s[i] = x}) = Cardinality({i \in 1..Len(t) : t[i] = x})

PositionIn(s, x) == CHOOSE i \in 1..Len(s) : s[i] = x

ValueLess(key, r1, r2) == JsLess(key, data[r1][key], data[r2][key])

(* s is in ascending (dir = "asc") or descending order of the values of key *)
IsOrderedBy(s, key, dir) ==
  \A i, j \in 1..Len(s) :
    i < j => IF dir = "asc" THEN ~ValueLess(key, s[j], s[i])
                            ELSE ~ValueLess(key, s[i], s[j])

(* rows of s with equal values of key stand in the order they have in t *)
KeepsOrderOfEquals(s, t, key) ==
  \A i, j \in 1..Len(s) :
    (i < j /\ ~ValueLess(key, s[i], s[j]) /\ ~ValueLess(key, s[j], s[i]))
      => PositionIn(t, s[i]) < PositionIn(t, s[j])

(* ---------------------------------------------------------------------- *)
(* C1 (as stated): with the table searchable and any non-empty query, even *)
(* one of whitespace only, every row of filteredData has a searchable      *)
(* column whose text contains the query, ignoring case.                    *)
(* ---------------------------------------------------------------------- *)
C1_EveryNonEmptyQueryFilters ==
  (searchable /\ searchQuery # <<>>) =>
    \A i \in 1..Len(filteredData) :
      SomeSearchableColumnContains(filteredData[i], searchQuery)

(* C1 (amended): the same for every query that is not made of whitespace   *)
(* only; a query of whitespace only filters nothing, filteredData is data. *)
C1_NonBlankQueryFilters ==
  /\ (searchable /\ ~IsBlank(searchQuery)) =>
       \A i \in 1..Len(filteredData) :
         SomeSearchableColumnContains(filteredData[i], searchQuery)
  /\ (searchable /\ IsBlank(searchQuery)) => filteredData = AllRows(data)

C1_Witness ==
  /\ searchable
  /\ searchQuery = <<"1">>
  /\ Len(data) = 3
  /\ Len(filteredData) \in 1..2

(* ---------------------------------------------------------------------- *)
(* C2: filteredData is an order-preserving subsequence of data, and it is  *)
(* data itself when the query is empty, or when the table is not           *)
(* searchable, whatever the query.                                         *)
(* ---------------------------------------------------------------------- *)
C2_FilteredIsSubsequence ==
  /\ IsSubsequenceOfData(filteredData)
  /\ searchQuery = <<>> => filteredData = AllRows(data)
  /\ \A q \in Queries :
       /\ IsSubsequenceOfData(filteredDataOf(data, columns, TRUE, q))
       /\ filteredDataOf(data, columns, FALSE, q) = AllRows(data)
  /\ filteredDataOf(data, columns, searchable, <<>>) = AllRows(data)

C2_Witness ==
  /\ searchable
  /\ searchQuery = <<"B">>
  /\ filteredData = <<1, 3>>

(* ---------------------------------------------------------------------- *)
(* C3: with an active sort, sortedData is a permutation of filteredData in *)
(* ascending (asc) or descending (desc) order of the sort column, rows of  *)
(* equal value keeping their filteredData order in both directions; with   *)
(* no active sort, sortedData is filteredData.                             *)
(* ---------------------------------------------------------------------- *)
SortActive == sortColumn # NULL /\ sortDirection # NULL

C3_SortedIsStableOrderedPermutation ==
  IF SortActive
  THEN /\ IsPermutationOf(sortedData, filteredData)
       /\ IsOrderedBy(sortedData, sortColumn, sortDirection)
       /\ KeepsOrderOfEquals(sortedData, filteredData, sortColumn)
  ELSE sortedData = filteredData

C3_Witness ==
  /\ sortDirection = "desc"
  /\ Len(sortedData) = 3
  /\ sortedData # filteredData
  /\ \E i, j \in 1..3 : i # j /\ data[i][sortColumn] = data[j][sortColumn]

(* ---------------------------------------------------------------------- *)
(* C4: three clicks in a row on the header of a sortable column that was   *)
(* not the active sort column: after the first the order is ascending by   *)
(* that column, after the second descending, and after the third           *)
(* sortColumn and sortDirection are none and sortedData is filteredData.   *)
(* ---------------------------------------------------------------------- *)
C4_ThreeClicksCycle ==
  /\ clicks.n = 1 =>
       /\ sortColumn = clicks.col /\ sortDirection = "asc"
       /\ IsPermutationOf(sortedData, filteredData)
       /\ IsOrderedBy(sortedData, clicks.col, "asc")
  /\ clicks.n = 2 =>
       /\ sortColumn = clicks.col /\ sortDirection = "desc"
       /\ IsPermutationOf(sortedData, filteredData)
       /\ IsOrderedBy(sortedData, clicks.col, "desc")
  /\ clicks.n = 3 =>
       /\ sortColumn = NULL /\ sortDirection = NULL
       /\ sortedData = filteredData

C4_Witness ==
  /\ clicks.n = 3
  /\ Len(filteredData) = 3
  /\ ~IsOrderedBy(filteredData, clicks.col, "asc")
  /\ ~IsOrderedBy(filteredData, clicks.col, "desc")

(* ---------------------------------------------------------------------- *)
(* C5: a click on a header changes no state when the column is not         *)
(* sortable; on the active sort column it moves asc to desc and desc to    *)
(* none, clearing sortColumn with the latter; on any other sortable column *)
(* it makes that column the sort column with direction asc.                *)
(* ---------------------------------------------------------------------- *)
ColumnOfKey(key) == columns[CHOOSE k \in 1..Len(columns) : columns[k].key = key]

C5_ToggleSortStep ==
  lastEvent'.op = "sort" =>
    LET column == ColumnOfKey(lastEvent'.col)
    IN IF Falsy(column.sortable) THEN local' = local
       ELSE IF sortColumn = column.key
            THEN /\ sortDirection = "asc" =>
                      (sortDirection' = "desc" /\ sortColumn' = column.key)
                 /\ sortDirection = "desc" =>
                      (sortDirection' = NULL /\ sortColumn' = NULL)
       ELSE sortColumn' = column.key /\ sortDirection' = "asc"

(* C5: every step made by a header click toggles the sort as described above *)
C5_ToggleSort == [][C5_ToggleSortStep]_vars

C5_Witness ==
  /\ lastEvent.op = "sort"
  /\ ~Falsy(ColumnOfKey(lastEvent.col).sortable)
  /\ sortColumn = NULL
  /\ sortDirection = NULL

(* ---------------------------------------------------------------------- *)
(* C6: with pagination on, page p is rows (p-1)*pageSize .. p*pageSize     *)
(* (exclusive) of sortedData; pages 1..totalPages in order make up         *)
(* sortedData, every page before the last has pageSize rows and the last   *)
(* the remainder, or pageSize when the remainder is 0; with pagination off *)
(* displayData is all of sortedData.                                       *)
(* ---------------------------------------------------------------------- *)
PageOf(p) == paginatedDataOf(sortedData, TRUE, p, pageSize)

RECURSIVE ConcatPages(_)
ConcatPages(n) == IF n = 0 THEN <<>> ELSE ConcatPages(n - 1) \o PageOf(n)

C6_PagesPartitionSortedData ==
  /\ totalPages * pageSize >= Len(sortedData)
  /\ (totalPages - 1) * pageSize < Len(sortedData) \/ Len(sortedData) = 0
  /\ \A p \in 1..totalPages :
       /\ \A i \in 1..Len(PageOf(p)) : PageOf(p)[i] = sortedData[(p - 1) * pageSize + i]
       /\ p < totalPages => Len(PageOf(p)) = pageSize
       /\ p = totalPages =>
            Len(PageOf(p)) = IF Len(sortedData) % pageSize = 0 THEN pageSize
                             ELSE Len(sortedData) % pageSize
  /\ ConcatPages(totalPages) = sortedData
  /\ paginated => displayData = PageOf(currentPage)
  /\ ~paginated => displayData = sortedData
  /\ paginatedDataOf(sortedData, FALSE, currentPage, pageSize) = sortedData

C6_Witness ==
  /\ paginated
  /\ pageSize = 2
  /\ Len(sortedData) = 3
  /\ currentPage = 2
  /\ Len(displayData) = 1

(* ---------------------------------------------------------------------- *)
(* C7: with the props fixed, after any sequence of user events currentPage *)
(* is an integer in [1, max(1, totalPages)], totalPages being computed     *)
(* from the current sortedData.                                            *)
(* ---------------------------------------------------------------------- *)
C7_CurrentPageInRange ==
  /\ currentPage \in Int
  /\ 1 <= currentPage
  /\ currentPage <= (IF totalPages > 1 THEN totalPages ELSE 1)

C7_Witness ==
  /\ lastEvent.op = "search"
  /\ lastEvent.page = 2
  /\ Len(data) = 2
  /\ Len(sortedData) = 1
  /\ currentPage = 1

(* ---------------------------------------------------------------------- *)
(* C8: every change of the query made through the search box, by typing or *)
(* by its clear button, leaves searchQuery equal to the new text and       *)
(* currentPage equal to 1, whatever page was current before.               *)
(* ---------------------------------------------------------------------- *)
C8_SearchStep ==
  /\ lastEvent'.op = "search" =>
       (searchQuery' = lastEvent'.text /\ currentPage' = 1)
  /\ lastEvent'.op = "clear" =>
       (searchQuery' = <<>> /\ currentPage' = 1)

(* C8: every step that changes the query through the search box sets the    *)
(* query to the new text and the page to 1                                  *)
C8_SearchResetsPage == [][C8_SearchStep]_vars

C8_Witness ==
  /\ lastEvent.op = "clear"
  /\ lastEvent.page > 1
  /\ searchQuery = <<>>
  /\ currentPage = 1

(* ---------------------------------------------------------------------- *)
(* C9: with the pagination controls offered, Previous sets currentPage to  *)
(* max(currentPage-1, 1) and Next to min(currentPage+1, totalPages); a     *)
(* request past either end leaves the page at that end; and every page in  *)
(* 1..totalPages is reached from page 1 by repeated Next.                  *)
(* ---------------------------------------------------------------------- *)
RECURSIVE RepeatedNext(_, _, _)
RepeatedNext(page, total, n) ==
  IF n = 0 THEN page ELSE RepeatedNext(handleNextPage(page, total), total, n - 1)

C9_NavigationStep ==
  /\ lastEvent'.op = "previous" =>
       /\ PaginationShown
       /\ currentPage' = (IF currentPage - 1 > 1 THEN currentPage - 1 ELSE 1)
  /\ lastEvent'.op = "next" =>
       /\ PaginationShown
       /\ currentPage' = (IF currentPage + 1 < totalPages THEN currentPage + 1
                          ELSE totalPages)

C9_EndsAndReachability ==
  PaginationShown =>
    /\ handlePreviousPage(1) = 1
    /\ handleNextPage(totalPages, totalPages) = totalPages
    /\ \A p \in 1..totalPages : RepeatedNext(1, totalPages, p - 1) = p

(* C9: Previous and Next steps follow max/min, the ends hold, and repeated  *)
(* Next from page 1 reaches every page                                      *)
C9_PageNavigation == [][C9_NavigationStep]_vars /\ []C9_EndsAndReachability

C9_Witness ==
  /\ lastEvent.op = "next"
  /\ lastEvent.page = 2
  /\ totalPages = 3
  /\ currentPage = 3

(* ---------------------------------------------------------------------- *)
(* C10 (as stated): no sequence of select and selectAll operations yields  *)
(* a selection holding two deep-equal entries.                             *)
(* ---------------------------------------------------------------------- *)
DeepEqual(r1, r2) == data[r1] = data[r2]

HasDeepEqualPair(sel) ==
  \E i, j \in 1..Len(sel) : i # j /\ DeepEqual(sel[i], sel[j])

C10_SelectStep ==
  /\ (lastEvent'.op = "select" /\ lastEvent'.checked) =>
       /\ \A k \in 1..Len(selectedRows) : ~DeepEqual(selectedRows[k], lastEvent'.row)
       /\ selectedRows' = Append(selectedRows, lastEvent'.row)
  /\ (~HasDeepEqualPair(selectedRows) /\ HasDeepEqualPair(selectedRows')) =>
       /\ lastEvent'.op = "selectAll" /\ lastEvent'.checked
       /\ HasDeepEqualPair(displayData)
  /\ \A i, j \in 1..Len(selectedRows') : i # j => selectedRows'[i] # selectedRows'[j]

C11_UncheckedRowIsNotSelected ==
  (lastEvent.op = "select" /\ ~lastEvent.checked) =>
    /\ \A k \in 1..Len(selectedRows) : ~DeepEqual(selectedRows[k], lastEvent.row)
    /\ ~isRowSelected(lastEvent.row)

(* ---------------------------------------------------------------------- *)
(* C12: selectAll(true) sets the selection to exactly the rows of the      *)
(* current displayData (the visible page only, when paginated), dropping   *)
(* every selected row that is not on it; selectAll(false) empties the      *)
(* selection, rows selected on other pages included.                       *)
(* ---------------------------------------------------------------------- *)
C12_SelectAllStep ==
  lastEvent'.op = "selectAll" =>
    /\ lastEvent'.checked => selectedRows' = displayData
    /\ ~lastEvent'.checked => selectedRows' = <<>>

C12_SelectAllReplaces == [][C12_SelectAllStep]_vars

C12_Witness ==
  /\ lastEvent.op = "selectAll"
  /\ lastEvent.checked
  /\ paginated
  /\ Len(displayData) < Len(sortedData)
  /\ selectedRows = displayData
  /\ \E k \in 1..Len(lastEvent.before) :
       \A i \in 1..Len(displayData) : displayData[i] # lastEvent.before[k]

(* ---------------------------------------------------------------------- *)
(* C13: every select and every selectAll calls onRowSelect exactly once,   *)
(* with the full new selection, so the array emitted last is the current   *)
(* selectedRows; no other operation (sort, search, page change) calls it.  *)
(* ---------------------------------------------------------------------- *)
C13_EmitsNewSelectionOnce ==
  /\ lastEvent.op \in {"select", "selectAll"} =>
       (emitted.calls = 1 /\ emitted.last = selectedRows)
  /\ lastEvent.op \notin {"select", "selectAll"} => emitted.calls = 0
  /\ emitted.ever => emitted.last = selectedRows
  /\ ~emitted.ever => selectedRows = <<>>

C13_Witness ==
  /\ lastEvent.op = "sort"
  /\ emitted.ever
  /\ emitted.last = selectedRows
  /\ Len(selectedRows) = 2
  /\ sortedData # filteredData

(* ---------------------------------------------------------------------- *)
(* C14: "all selected" holds exactly when displayData is non-empty and     *)
(* every displayed row is deep-equal to an entry of the selection;         *)
(* "indeterminate" is set exactly when at least one but not all displayed  *)
(* rows are; the two never hold together, and neither holds when nothing   *)
(* displayed is selected.                                                  *)
(* ---------------------------------------------------------------------- *)
DisplayedSelected ==
  { k \in 1..Len(displayData) :
      \E j \in 1..Len(selectedRows) : DeepEqual(selectedRows[j], displayData[k]) }

C14_HeaderCheckboxState ==
  /\ isAllSelected <=>
       (Len(displayData) > 0 /\ DisplayedSelected = 1..Len(displayData))
  /\ (isIndeterminate = "true") <=>
       (DisplayedSelected # {} /\ DisplayedSelected # 1..Len(displayData))
  /\ ~(isAllSelected /\ isIndeterminate = "true")
  /\ DisplayedSelected = {} => (~isAllSelected /\ isIndeterminate # "true")

C14_Witness ==
  /\ isIndeterminate = "true"
  /\ ~isAllSelected
  /\ Len(displayData) = 2
  /\ Cardinality(DisplayedSelected) = 1

(* ---------------------------------------------------------------------- *)
(* C15: every entry of the selection was part of displayData at the moment *)
(* it was selected: a step only adds rows that are displayed when it is    *)
(* taken, so no operation adds a row that was never displayed.             *)
(* ---------------------------------------------------------------------- *)
Entries(seq) == { seq[k] : k \in 1..Len(seq) }

C15_SelectStep ==
  Entries(selectedRows') \subseteq Entries(selectedRows) \cup Entries(displayData)

C15_SelectionWasDisplayed == [][C15_SelectStep]_vars

C15_Witness ==
  /\ lastEvent.op = "select"
  /\ lastEvent.checked
  /\ paginated
  /\ currentPage = 2
  /\ lastEvent.row \in Entries(displayData)
  /\ Len(selectedRows) = 2
  /\ \E k \in 1..Len(selectedRows) : selectedRows[k] \notin Entries(displayData)

(* ---------------------------------------------------------------------- *)
(* C16: no table operation (search, sort in either direction, pagination,  *)
(* selection) modifies the caller's data array: after every step its       *)
(* length, its order and the contents of its rows are what they were.      *)
(* ---------------------------------------------------------------------- *)
C16_DataStep ==
  /\ Len(data') = Len(data)
  /\ \A i \in 1..Len(data) : data'[i] = data[i]

QueryMatchesNoRow == searchQuery # <<>> /\ filteredData = <<>>

EmptyValue(value) == value.kind # "string" \/ Len(value.text) = 0
RequiredSet(rules) == rules.required = "true"
ShortCircuits(value, rules) == EmptyValue(value) /\ ~RequiredSet(rules)

C18_EmptyOptionalIsValid ==
  (validation.called /\ ShortCircuits(validation.value, validation.rules)) =>
    /\ validation.result.kind = "return"
    /\ validation.result.isValid = TRUE
    /\ validation.result.errors = <<>>
    /\ validation.result.evaluated = <<>>

C18_Witness ==
  /\ validation.called
  /\ validation.value = StringValue(<<>>)
  /\ validation.rules.required = "false"
  /\ validation.rules.minLength = <<2>>
  /\ validation.rules.maxLength = <<1>>
  /\ validation.rules.pattern # UNDEFINED
  /\ validation.rules.custom.type = "boolean" /\ ~validation.rules.custom.bool
  /\ validation.result.isValid

(* ---------------------------------------------------------------------- *)
(* C19: when the empty-and-not-required short-circuit does not apply,      *)
(* validateInput returns one message for every rule the value fails and    *)
(* none for a rule it passes, in the order required, minLength, maxLength, *)
(* pattern, custom (a custom string is the message, false gives the        *)
(* generic message, true none), for every length bound that is a           *)
(* non-negative integer; isValid is true exactly when errors is empty.     *)
(* Stated for values that are strings.                                     *)
(* ---------------------------------------------------------------------- *)
MatchesPattern(text) == Len(text) >= 1 /\ { text[i] : i \in 1..Len(text) } = {"a"}

MessageIf(fails, message) == IF fails THEN << message >> ELSE <<>>

ExpectedErrors(value, rules) ==
  MessageIf(RequiredSet(rules) /\ IsBlank(value.text), REQUIRED_MESSAGE)
    \o MessageIf(rules.minLength # <<>> /\ Len(value.text) < rules.minLength[1],
                 MinLengthMessage(rules.minLength[1]))
    \o MessageIf(rules.maxLength # <<>> /\ Len(value.text) > rules.maxLength[1],
                 MaxLengthMessage(rules.maxLength[1]))
    \o MessageIf(rules.pattern # UNDEFINED /\ ~MatchesPattern(value.text), PATTERN_MESSAGE)
    \o MessageIf(rules.custom.type = "string", rules.custom.text)
    \o MessageIf(rules.custom.type = "boolean" /\ ~rules.custom.bool, INVALID_MESSAGE)

C19_OneMessagePerFailedRule ==
  ( /\ validation.called
    /\ validation.value.kind = "string"
    /\ ~ShortCircuits(validation.value, validation.rules) ) =>
    /\ validation.result.kind = "return"
    /\ validation.result.errors = ExpectedErrors(validation.value, validation.rules)
    /\ validation.result.isValid <=> (validation.result.errors = <<>>)

(* ---------------------------------------------------------------------- *)
(* C20: validateInput never raises: for every value, an absent (null or    *)
(* undefined) one with required and length rules included, and for every   *)
(* rule set, it returns a structured {isValid, errors} result.             *)
(* ---------------------------------------------------------------------- *)
C20_AlwaysReturnsAResult ==
  validation.called =>
    /\ validation.result.kind = "return"
    /\ validation.result.isValid \in BOOLEAN
    /\ validation.result.isValid <=> (validation.result.errors = <<>>)

(* ---------------------------------------------------------------------- *)
(* C21: on every render the input element is non-interactive exactly when  *)
(* disabled or loading is set, and the clear button is offered exactly     *)
(* when clearable is set, the value is non-empty, and neither disabled nor *)
(* loading is set; so no clear happens while the field is disabled or      *)
(* loading or its value is empty.                                          *)
(* ---------------------------------------------------------------------- *)
NonEmptyValue(p) == p.value.kind = "string" /\ p.value.text # <<>>

C21_ClearOfferedOnlyWhenUsable ==
  input.op # "none" =>
    /\ rendered.inputDisabled <=> (input.props.disabled \/ input.props.loading)
    /\ rendered.clearButton <=>
         ( /\ input.props.clearable
           /\ NonEmptyValue(input.props)
           /\ ~input.props.disabled
           /\ ~input.props.loading )
    /\ input.op = "clear" =>
         ( /\ ~input.props.disabled
           /\ ~input.props.loading
           /\ NonEmptyValue(input.props) )

C21_Witness ==
  /\ input.op = "clear"
  /\ input.opBefore = "props"
  /\ rendered.clearButton
  /\ ~rendered.inputDisabled

(* ---------------------------------------------------------------------- *)
(* C22: a click on the clear button of a field with a non-empty value      *)
(* calls onClear once (when supplied) and then onChange once (when         *)
(* supplied) with an event whose target value is the empty string; a       *)
(* caller that supplies only one of the two still observes the clear; and  *)
(* the component does not change the value it was given.                   *)
(* ---------------------------------------------------------------------- *)
CallsOf(calls, fn) == { k \in 1..Len(calls) : calls[k].fn = fn }

C22_ClearStep ==
  input'.op = "clear" =>
    LET calls == input'.calls
        p == input.props
    IN /\ NonEmptyValue(p)
       /\ input'.props = p
       /\ Cardinality(CallsOf(calls, "onClear")) = IF p.onClear THEN 1 ELSE 0
       /\ Cardinality(CallsOf(calls, "onChange")) = IF p.onChange THEN 1 ELSE 0
       /\ Len(calls) = Cardinality(CallsOf(calls, "onClear") \cup CallsOf(calls, "onChange"))
       /\ \A i \in CallsOf(calls, "onClear"), j \in CallsOf(calls, "onChange") : i < j
       /\ \A j \in CallsOf(calls, "onChange") : calls[j].events = << <<>> >>
       /\ (p.onClear \/ p.onChange) => calls # <<>>

C22_ClearCallsBothCallbacks == [][C22_ClearStep]_vars

C22_Witness ==
  /\ input.op = "clear"
  /\ input.props.onClear
  /\ input.props.onChange
  /\ Len(input.calls) = 2
  /\ input.calls[2].fn = "onChange"
  /\ NonEmptyValue(input.props)

(* ---------------------------------------------------------------------- *)
(* C23: the reveal flag is the only local state and starts off; each click *)
(* on the password toggle flips it and nothing else changes it; the        *)
(* effective input type is plain text exactly when type is password and    *)
(* the flag is on, and is the given type otherwise, so the flag never      *)
(* changes the type of a non-password input; two toggles in a row restore  *)
(* the masked state.                                                       *)
(* ---------------------------------------------------------------------- *)
C23_EffectiveType ==
  /\ input.op = "mount" => ~input.showPassword
  /\ (input.props.type = "password" /\ input.showPassword) => rendered.inputType = "text"
  /\ ~(input.props.type = "password" /\ input.showPassword) =>
       rendered.inputType = input.props.type
  /\ input.props.type # "password" => rendered.inputType = input.props.type

C23_ToggleStep ==
  input' # input =>
    /\ input'.op = "toggle" => input'.showPassword = ~input.showPassword
    /\ input'.op # "toggle" => input'.showPassword = input.showPassword
    /\ (input.op = "toggle" /\ input'.op = "toggle") =>
         input'.showPassword = input.showBefore

C23_RevealFlag == [] C23_EffectiveType /\ [][C23_ToggleStep]_vars

C23_Witness ==
  /\ input.op = "toggle"
  /\ input.opBefore = "toggle"
  /\ input.props.type = "password"
  /\ ~input.showPassword
  /\ rendered.inputType = "password"

(* ---------------------------------------------------------------------- *)
(* C30: whenever the password toggle is not offered on a password-type     *)
(* field (showPasswordToggle is false, or the field is loading), the       *)
(* effective input type is masked: a value revealed earlier does not stay  *)
(* in plain text after the toggle disappears.                              *)
(* ---------------------------------------------------------------------- *)
C30_MaskedWithoutToggle ==
  (input.op # "none" /\ input.props.type = "password" /\ ~rendered.toggleButton) =>
    rendered.inputType = "password"

(* ---------------------------------------------------------------------- *)
(* C24: the id is generated once per mounted instance: the id of the input *)
(* element is the same on every render of the instance, across value       *)
(* changes, reveal toggles and prop changes. Stated for an instance that   *)
(* is passed no id of its own.                                             *)
(* ---------------------------------------------------------------------- *)
C24_IdGeneratedOnce ==
  (input.op # "none" /\ input.props.rest.id = <<>>) =>
    rendered.inputId = input.mountId

(* ---------------------------------------------------------------------- *)
(* C25: on every render, for every combination of props, passthrough       *)
(* attributes included: a label's `for` is the id the input element        *)
(* carries; aria-invalid is the invalid prop; aria-describedby is set      *)
(* exactly when helperText or errorMessage is present, and is then the id  *)
(* of the rendered description element.                                    *)
(* ---------------------------------------------------------------------- *)
Described(p) == p.helperText # <<>> \/ p.errorMessage # <<>>

C25_AccessibilityWiring ==
  input.op # "none" =>
    /\ input.props.label # <<>> => rendered.labelFor = rendered.inputId
    /\ rendered.ariaInvalid = "true" <=> input.props.invalid
    /\ rendered.ariaDescribedby # <<>> <=> Described(input.props)
    /\ Described(input.props) =>
         (rendered.descriptionId # <<>> /\ rendered.ariaDescribedby = rendered.descriptionId)

(* ---------------------------------------------------------------------- *)
(* C26: for every call announce(m) on a mounted live region, the region    *)
(* shows m from that call until the delay measured from that call has      *)
(* elapsed, for every interleaving of announce calls and timer firings, a  *)
(* second announce before the first one's delay has elapsed included.      *)
(* Stated for the latest call: while its own timer has not run, the region *)
(* shows its message.                                                      *)
(* ---------------------------------------------------------------------- *)
C26_ShownUntilOwnDelay ==
  (live.mounted /\ live.timers # <<>> /\ ~live.timers[Len(live.timers)].stale) =>
    live.textContent = live.timers[Len(live.timers)].message

(* ---------------------------------------------------------------------- *)
(* C27: in every reachable state of the table sortColumn is none if and    *)
(* only if sortDirection is none, after any clicks on sortable and         *)
(* non-sortable headers interleaved with any other events.                 *)
(* ---------------------------------------------------------------------- *)
C27_ColumnAndDirectionTogether ==
  /\ (sortColumn = NULL) <=> (sortDirection = NULL)
  /\ sortColumn # NULL => sortDirection \in {"asc", "desc"}

C27_Witness ==
  /\ lastEvent.op = "sort"
  /\ clicks.n = 3
  /\ sortColumn = NULL
  /\ sortDirection = NULL
  /\ selectedRows # <<>>
  /\ searchQuery # <<>>

(* ---------------------------------------------------------------------- *)
(* C28: sorting, searching and page navigation leave the selection         *)
(* unchanged (rows selected on one page, or filtered out by a later query, *)
(* stay selected); a header click leaves searchQuery and currentPage       *)
(* unchanged; the selection changes only through the row and select-all    *)
(* checkboxes.                                                             *)
(* ---------------------------------------------------------------------- *)
C28_FrameStep ==
  /\ lastEvent'.op \in {"sort", "search", "clear", "previous", "next", "page"} =>
       selectedRows' = selectedRows
  /\ lastEvent'.op = "sort" =>
       (searchQuery' = searchQuery /\ currentPage' = currentPage)
  /\ selectedRows' # selectedRows => lastEvent'.op \in {"select", "selectAll"}

C28_SelectionFrame == [][C28_FrameStep]_vars

C28_Witness ==
  /\ lastEvent.op = "search"
  /\ selectedRows # <<>>
  /\ \E k \in 1..Len(selectedRows) : selectedRows[k] \notin Entries(filteredData)

(* ---------------------------------------------------------------------- *)
(* C29: when the caller replaces data with a shorter array, or raises      *)
(* pageSize, while a later page is current, the table still has            *)
(* currentPage <= max(1, totalPages): whenever sortedData is non-empty,    *)
(* displayData is non-empty and "no data available" is not shown, and      *)
(* currentPage never goes below 1.                                         *)
(* ---------------------------------------------------------------------- *)
C29_PageInRangeAfterPropChange ==
  (~loading /\ paginated) =>
    /\ currentPage >= 1
    /\ currentPage <= Max(1, totalPages)
    /\ sortedData # <<>> => (displayData # <<>> /\ Rendered.message # NO_DATA)

====
